---- MODULE Spec2Model ----
(***************************************************************************)
(* Model of DSP_CNV_e1 (src/DSP_CNV_e1/__init__.py): the count-file (DCC)  *)
(* data model, the alignment-file (SAM) helpers, the stage summary and the *)
(* two table builders.                                                     *)
(*                                                                         *)
(* Representation of Python values:                                        *)
(*   str   a sequence of atoms; an atom is a TLA+ string standing for one  *)
(*         indivisible piece of text.  The atoms "," "<" ">" "/" "_" "."   *)
(*         "@" "*" "\n" "\r" "\t" " " are the characters the code looks    *)
(*         at; every other atom is a run of characters none of which the   *)
(*         code looks at.                                                  *)
(*   cell  a value held in a dictionary or in an analyte row:              *)
(*         [ty |-> "str" or "int", v |-> its text as a str].               *)
(*   OrderedDict   a sequence of <<key, value>> pairs, keys distinct.      *)
(*   a call's outcome   [exc |-> "ok" or the exception's name, ...].       *)
(***************************************************************************)
EXTENDS Integers, Sequences, FiniteSets, TLC

VARIABLES
    fs,      \* the file system: path name -> text (a str), or NoFile
    objs,    \* the dccfile objects in use: object name -> dccfile
    sumObj,  \* the summaryInfo object in use
    ret,     \* the last call: its name, arguments, outcome and return value
    arg      \* the inputs the files and objects of this run were made from

vars == <<fs, objs, sumObj, ret, arg>>

NoFile == <<"<no file>">>
NoObj == [none |-> TRUE]

(***************************************************************************)
(* str helpers (Python builtins used by the source)                        *)
(***************************************************************************)
Whitespace == {" ", "\t", "\n", "\r"}

\* s.rstrip()
RECURSIVE RStrip(_)
RStrip(s) ==
    IF s = <<>> THEN <<>>
    ELSE IF s[Len(s)] \in Whitespace THEN RStrip(SubSeq(s, 1, Len(s) - 1))
    ELSE s

\* s.startswith(p)
StartsWith(s, p) == Len(s) >= Len(p) /\ SubSeq(s, 1, Len(p)) = p

\* s.endswith(p)
EndsWith(s, p) == Len(s) >= Len(p) /\ SubSeq(s, Len(s) - Len(p) + 1, Len(s)) = p

\* s.split(sep) for a one-character sep: a list of str, never empty
SepPositions(s, sep) ==
    SelectSeq([i \in 1..Len(s) |-> i], LAMBDA i : s[i] = sep)

Split(s, sep) ==
    LET pos == SepPositions(s, sep)
        n == Len(pos)
    IN  [k \in 1..(n + 1) |->
            SubSeq(s, (IF k = 1 THEN 0 ELSE pos[k - 1]) + 1,
                      (IF k = n + 1 THEN Len(s) + 1 ELSE pos[k]) - 1)]

\* sep.join(list of str)
RECURSIVE Join(_, _)
Join(parts, sep) ==
    IF parts = <<>> THEN <<>>
    ELSE IF Len(parts) = 1 THEN parts[1]
    ELSE parts[1] \o sep \o Join(Tail(parts), sep)

\* s.replace(old, new) for a one-character old
Replace(s, old, new) == Join(Split(s, old), new)

\* list.index(x), 0-based; the caller checks membership (ValueError) first
RECURSIVE IndexFrom(_, _, _)
IndexFrom(lst, x, i) ==
    IF lst[i] = x THEN i - 1 ELSE IndexFrom(lst, x, i + 1)

Contains(lst, x) == \E i \in 1..Len(lst) : lst[i] = x
Index(lst, x) == IndexFrom(lst, x, 1)

\* int(s) and '%d' % n on decimal text: the numerals the model uses
Numerals == <<"0", "1", "2", "3", "4", "5", "6", "7", "8", "9", "10",
              "11", "12", "13", "14", "15", "16", "17", "18", "19", "20">>

IsIntText(s) == Len(s) = 1 /\ Contains(Numerals, s[1])
IntOfText(s) == Index(Numerals, s[1])
TextOfInt(n) == <<Numerals[n + 1]>>

StrCell(s) == [ty |-> "str", v |-> s]
IntCell(n) == [ty |-> "int", v |-> TextOfInt(n)]

\* int(cell): ValueError unless the text is a numeral
CanInt(c) == IsIntText(c.v)
IntOf(c) == IntOfText(c.v)

(***************************************************************************)
(* OrderedDict                                                             *)
(***************************************************************************)
DictHas(d, k) == \E i \in 1..Len(d) : d[i][1] = k
DictGet(d, k) == d[CHOOSE i \in 1..Len(d) : d[i][1] = k][2]
DictSet(d, k, v) ==
    IF DictHas(d, k)
    THEN [i \in 1..Len(d) |-> IF d[i][1] = k THEN <<k, v>> ELSE d[i]]
    ELSE Append(d, <<k, v>>)
DictKeys(d) == [i \in 1..Len(d) |-> d[i][1]]
DictValues(d) == [i \in 1..Len(d) |-> d[i][2]]
DictKeySet(d) == {d[i][1] : i \in 1..Len(d)}

(***************************************************************************)
(* Files                                                                   *)
(***************************************************************************)
\* open(name) in text mode: "\r\n" and a lone "\r" are read as "\n"
UniversalNewlines(t) ==
    LET keep == SelectSeq([i \in 1..Len(t) |-> i],
                          LAMBDA i : ~(t[i] = "\n" /\ i > 1 /\ t[i - 1] = "\r"))
    IN  [k \in 1..Len(keep) |-> IF t[keep[k]] = "\r" THEN "\n" ELSE t[keep[k]]]

\* the lines of a text without their line ends; a text that ends with a
\* line end has no further (empty) line after it
ReadLines(text) ==
    LET t == UniversalNewlines(text)
        parts == Split(t, "\n")
    IN  IF parts[Len(parts)] = <<>> THEN SubSeq(parts, 1, Len(parts) - 1) ELSE parts

\* for line in fh: each line with its line end, when it has one
ReadLinesKeep(text) ==
    LET t == UniversalNewlines(text)
        ls == ReadLines(text)
    IN  [i \in 1..Len(ls) |->
            IF i < Len(ls) \/ (t # <<>> /\ t[Len(t)] = "\n")
            THEN Append(ls[i], "\n") ELSE ls[i]]

\* s.replace(old, new) for a str old
RECURSIVE ReplaceSub(_, _, _)
ReplaceSub(s, old, new) ==
    IF s = <<>> THEN <<>>
    ELSE IF StartsWith(s, old)
         THEN new \o ReplaceSub(SubSeq(s, Len(old) + 1, Len(s)), old, new)
         ELSE <<s[1]>> \o ReplaceSub(Tail(s), old, new)

(***************************************************************************)
(* dccfile                                                                 *)
(***************************************************************************)
STR_Name == <<"Name">>
STR_Count == <<"Count">>

\* dccfile.__init__ with no file
dccfile_init ==
    [header |-> <<>>, scanattribs |-> <<>>, ngsattribs |-> <<>>,
     codelabs |-> <<>>, codesum |-> <<>>, countcol |-> 0, namecol |-> 0]

\* re.sub('<|>', '', line)
StripAngles(line) == SelectSeq(line, LAMBDA a : a \notin {"<", ">"})

CellsOf(fields) == [i \in 1..Len(fields) |-> StrCell(fields[i])]

\* importNewFormat with the Name and Count positions exchanged
importNewFormat_Swapped(st, f) ==
    LET o == [st.o EXCEPT !.codelabs = <<STR_Name, STR_Count>>,
                          !.namecol = 1, !.countcol = 0]
        nm == f[1]
    IN  IF DictHas(o.codesum, nm)
        THEN [st EXCEPT !.o = o, !.started = TRUE, !.exc = "Exception"]
        ELSE [st EXCEPT !.o = [o EXCEPT !.codesum = DictSet(@, nm, CellsOf(f))],
                        !.started = TRUE]

\* the except ValueError branch of the Code_Summary case (lines 511-520)
importNewFormat(st, f) ==
    LET o == [st.o EXCEPT !.codelabs = <<STR_Name, STR_Count>>,
                          !.namecol = 0, !.countcol = 1]
        nm == f[1]
    IN  IF DictHas(o.codesum, nm)
        THEN [st EXCEPT !.o = o, !.started = TRUE, !.exc = "Exception"]
        ELSE [st EXCEPT !.o = [o EXCEPT !.codesum = DictSet(@, nm, CellsOf(f))],
                        !.started = TRUE]

\* importDataRow without the test for a repeated name: the later row wins
importDataRow_Overwrite(st, f) ==
    IF st.o.namecol + 1 > Len(f)
    THEN [st EXCEPT !.exc = "IndexError"]
    ELSE [st EXCEPT !.o.codesum = DictSet(@, f[st.o.namecol + 1], CellsOf(f))]

\* a data row of an already started Code_Summary section (lines 505-509)
importDataRow(st, f) ==
    IF st.o.namecol + 1 > Len(f)
    THEN [st EXCEPT !.exc = "IndexError"]
    ELSE LET nm == f[st.o.namecol + 1]
         IN  IF DictHas(st.o.codesum, nm)
             THEN [st EXCEPT !.exc = "Exception"]
             ELSE [st EXCEPT !.o.codesum = DictSet(@, nm, CellsOf(f))]

\* the Code_Summary case (lines 493-520)
importCodeSummary(st, f) ==
    IF ~st.started
    THEN LET s1 == [st EXCEPT !.o.codelabs = f, !.started = TRUE]
         IN  IF ~Contains(f, STR_Name) THEN importNewFormat(s1, f)
             ELSE LET s2 == [s1 EXCEPT !.o.namecol = Index(f, STR_Name)]
                  IN  IF ~Contains(f, STR_Count) THEN importNewFormat(s2, f)
                      ELSE [s2 EXCEPT !.o.countcol = Index(f, STR_Count)]
    ELSE importDataRow(st, f)

\* a key,value line of an attribute section; tolerant is TRUE for
\* NGS_Processing_Attributes, where a short line is skipped (lines 481-491)
importAttr(st, f, sect, tolerant) ==
    IF Len(f) < 2
    THEN IF tolerant THEN st ELSE [st EXCEPT !.exc = "IndexError"]
    ELSE [st EXCEPT !.o[sect] = DictSet(@, f[1], StrCell(f[2]))]

\* the body of the loop over the lines of the file (lines 466-523)
importLine(st, raw) ==
    LET line == RStrip(raw)
    IN  IF line = <<>> THEN st
        ELSE IF StartsWith(line, <<"<", "/">>) THEN [st EXCEPT !.section = <<>>]
        ELSE IF StartsWith(line, <<"<">>) THEN [st EXCEPT !.section = StripAngles(line)]
        ELSE LET f == Split(line, ",")
             IN  IF st.section = <<"Header">> THEN importAttr(st, f, "header", FALSE)
                 ELSE IF st.section = <<"Scan_Attributes">>
                      THEN importAttr(st, f, "scanattribs", FALSE)
                 ELSE IF st.section = <<"NGS_Processing_Attributes">>
                      THEN importAttr(st, f, "ngsattribs", TRUE)
                 ELSE IF st.section = <<"Code_Summary">> THEN importCodeSummary(st, f)
                 ELSE st

RECURSIVE importLoop(_, _, _)
importLoop(st, lines, i) ==
    IF i > Len(lines) \/ st.exc # "ok" THEN st
    ELSE importLoop(importLine(st, lines[i]), lines, i + 1)

\* dccfile.importDCC(self, dccfileName): the object as the call leaves it,
\* and how the call ended
importDCC(self, text) ==
    IF text = NoFile
    THEN [o |-> self, exc |-> "IOError"]
    ELSE LET st == importLoop([o |-> self, section |-> <<>>, started |-> FALSE,
                               exc |-> "ok"], ReadLinesKeep(text), 1)
         IN  [o |-> st.o, exc |-> st.exc]

\* dccfile.getcodeval(analyte, attribute)
getcodeval(self, analyte, attribute) ==
    IF ~Contains(self.codelabs, attribute) THEN [exc |-> "ValueError"]
    ELSE LET idx == Index(self.codelabs, attribute)
             row == DictGet(self.codesum, analyte)
         IN  IF idx + 1 > Len(row) THEN [exc |-> "IndexError"]
             ELSE [exc |-> "ok", val |-> row[idx + 1]]

\* dccfile.analytecounts(): a dict analyte -> int
RECURSIVE analytecountsLoop(_, _, _)
analytecountsLoop(self, i, acc) ==
    IF i > Len(self.codesum) THEN [exc |-> "ok", val |-> acc]
    ELSE LET analyte == self.codesum[i][1]
             g == getcodeval(self, analyte, STR_Count)
         IN  IF g.exc # "ok" THEN [exc |-> g.exc]
             ELSE IF ~CanInt(g.val) THEN [exc |-> "ValueError"]
             ELSE analytecountsLoop(self, i + 1, DictSet(acc, analyte, IntOf(g.val)))

analytecounts(self) == analytecountsLoop(self, 1, <<>>)

\* '%s,%s' % (k, v) for each item of an attribute dictionary
AttrLines(d) == [i \in 1..Len(d) |-> d[i][1] \o <<",">> \o d[i][2].v]

\* ','.join(v) for an analyte row: TypeError unless every item is a str
RowJoinable(row) == \A i \in 1..Len(row) : row[i].ty = "str"
RowLine(row) == Join([i \in 1..Len(row) |-> row[i].v], <<",">>)

\* dccfile.__str__
dccfile_str(self) ==
    IF \E i \in 1..Len(self.codesum) : ~RowJoinable(self.codesum[i][2])
    THEN [exc |-> "TypeError"]
    ELSE [exc |-> "ok", val |->
        <<"<", "Header", ">", "\n">> \o
        Join(AttrLines(self.header), <<"\n">>) \o
        <<"\n", "<", "/", "Header", ">", "\n", "\n",
          "<", "Scan_Attributes", ">", "\n">> \o
        Join(AttrLines(self.scanattribs), <<"\n">>) \o
        <<"\n", "<", "/", "Scan_Attributes", ">", "\n", "\n",
          "<", "NGS_Processing_Attributes", ">", "\n">> \o
        Join(AttrLines(self.ngsattribs), <<"\n">>) \o
        <<"\n", "<", "/", "NGS_Processing_Attributes", ">", "\n", "\n",
          "<", "Code_Summary", ">", "\n">> \o
        Join(self.codelabs, <<",">>) \o <<"\n">> \o
        Join([i \in 1..Len(self.codesum) |-> RowLine(self.codesum[i][2])], <<"\n">>) \o
        <<"\n", "<", "/", "Code_Summary", ">", "\n">>]

\* dccfile.unixwrite: the text written (lines 608-611)
unixwrite(self) == dccfile_str(self)

\* dccfile.windowswrite: the text written (lines 596-599)
windowswrite(self) ==
    LET s == dccfile_str(self)
    IN  IF s.exc # "ok" THEN s
        ELSE [exc |-> "ok", val |-> Replace(s.val, "\n", <<"\r", "\n">>)]

(***************************************************************************)
(* summaryInfo                                                             *)
(***************************************************************************)
\* summaryInfo.steps (line 338)
steps == << <<"Raw">>, <<"Trimmed">>, <<"Stitched">>, <<"Aligned">> >>

\* summaryInfo.__init__ (lines 339-341)
summaryInfo_init(fRoot) ==
    [fRoot |-> fRoot, vals |-> [i \in 1..Len(steps) |-> <<steps[i], 0>>]]

\* summaryInfo.orderedCounts (lines 384-385)
orderedCounts(s) == [i \in 1..Len(steps) |-> DictGet(s.vals, steps[i])]

\* dccfile.getSummary (lines 634-644): int() of the stored text, or the zero
\* left by summaryInfo.__init__ when the key is missing or is no number
RECURSIVE getSummaryLoop(_, _, _)
getSummaryLoop(self, s, i) ==
    IF i > Len(steps) THEN s
    ELSE LET stp == steps[i]
             ok == DictHas(self.ngsattribs, stp) /\ CanInt(DictGet(self.ngsattribs, stp))
         IN  getSummaryLoop(self,
                 IF ok THEN [s EXCEPT !.vals = DictSet(@, stp,
                                          IntOf(DictGet(self.ngsattribs, stp)))]
                 ELSE s,
                 i + 1)

STR_ID == <<"ID">>

getSummary(self) ==
    IF ~DictHas(self.scanattribs, STR_ID) THEN [exc |-> "KeyError"]
    ELSE [exc |-> "ok",
          val |-> getSummaryLoop(self,
                      summaryInfo_init(DictGet(self.scanattribs, STR_ID).v), 1)]

\* dccfile.countlessdcc (lines 659-679); the plate, well, owner, kit and
\* date are the defaults or fixed texts
countlessdcc(self, s, comments) ==
    [self EXCEPT
        !.header = << <<<<"FileVersion">>, StrCell(<<"0", ".", "01">>)>>,
                      <<<<"SoftwareVersion">>, StrCell(<<"0", ".", "01">>)>> >>,
        !.scanattribs = << <<STR_ID, StrCell(s.fRoot)>>,
                           <<<<"Plate_ID">>, StrCell(<<"P1012207777777">>)>>,
                           <<<<"Well">>, StrCell(<<"A01">>)>>,
                           <<<<"Owner">>, StrCell(<<"Nanostring">>)>>,
                           <<<<"Comments">>, StrCell(comments)>>,
                           <<<<"Date">>, StrCell(<<"2019-01-07">>)>> >>,
        !.ngsattribs = << <<<<"Sequencing_Kit">>, StrCell(<<>>)>> >> \o
                       [i \in 1..Len(steps) |->
                           <<steps[i], IntCell(DictGet(s.vals, steps[i]))>>] \o
                       << <<<<"Overcounts">>, StrCell(<<>>)>> >>]

\* the body of the loop of dccfile.addcounts (lines 581-587)
addcountsStep(st, analyte, c, countIdx, nameIdx) ==
    IF ~DictHas(st.o.codesum, analyte)
    THEN LET blank == [i \in 1..Len(st.o.codelabs) |->
                          IF i = countIdx + 1 THEN IntCell(c)
                          ELSE IF i = nameIdx + 1 THEN StrCell(analyte)
                          ELSE StrCell(<<>>)]
         IN  [st EXCEPT !.o.codesum = DictSet(@, analyte, blank)]
    ELSE LET g == getcodeval(st.o, analyte, STR_Count)
             row == DictGet(st.o.codesum, analyte)
         IN  IF g.exc # "ok" THEN [st EXCEPT !.exc = g.exc]
             ELSE IF ~CanInt(g.val) THEN [st EXCEPT !.exc = "ValueError"]
             ELSE [st EXCEPT !.o.codesum = DictSet(@, analyte,
                       [row EXCEPT ![countIdx + 1] = IntCell(IntOf(g.val) + c)])]

RECURSIVE addcountsLoop(_, _, _, _, _)
addcountsLoop(st, alt, i, countIdx, nameIdx) ==
    IF i > Len(alt) \/ st.exc # "ok" THEN st
    ELSE addcountsLoop(addcountsStep(st, alt[i][1], alt[i][2], countIdx, nameIdx),
                       alt, i + 1, countIdx, nameIdx)

\* dccfile.addcounts(self, dccObj) (lines 576-587): self as the call leaves
\* it, and how the call ended
addcounts(self, dccObj) ==
    IF ~Contains(self.codelabs, STR_Count) \/ ~Contains(self.codelabs, STR_Name)
    THEN [o |-> self, exc |-> "ValueError"]
    ELSE LET altCounts == analytecounts(dccObj)
         IN  IF altCounts.exc # "ok" THEN [o |-> self, exc |-> altCounts.exc]
             ELSE addcountsLoop([o |-> self, exc |-> "ok"], altCounts.val, 1,
                                Index(self.codelabs, STR_Count),
                                Index(self.codelabs, STR_Name))

(***************************************************************************)
(* Alignment files                                                         *)
(***************************************************************************)
\* csv.reader(fh, delimiter='\t'): one list of fields per line, [] for an
\* empty line
CsvRows(text) ==
    LET ls == ReadLines(text)
    IN  [i \in 1..Len(ls) |-> IF ls[i] = <<>> THEN <<>> ELSE Split(ls[i], "\t")]

\* samSummaryStep without the test for the target '*'
samSummaryStep_NoStar(st, line) ==
    IF Len(line) < 1 THEN [st EXCEPT !.exc = "IndexError"]
    ELSE IF StartsWith(line[1], <<"@">>) THEN st
    ELSE IF Len(line) < 3 THEN [st EXCEPT !.exc = "IndexError"]
    ELSE LET targ == line[3]
         IN  [st EXCEPT !.aligned = @ + 1,
                        !.targets = DictSet(@, targ,
                            (IF DictHas(st.targets, targ)
                             THEN DictGet(st.targets, targ) ELSE 0) + 1)]

\* the body of the loop of samSummary (lines 115-122)
samSummaryStep(st, line) ==
    IF Len(line) < 1 THEN [st EXCEPT !.exc = "IndexError"]
    ELSE IF StartsWith(line[1], <<"@">>) THEN st
    ELSE IF Len(line) < 3 THEN [st EXCEPT !.exc = "IndexError"]
    ELSE IF line[3] = <<"*">> THEN [st EXCEPT !.unaligned = @ + 1]
    ELSE LET targ == line[3]
         IN  [st EXCEPT !.aligned = @ + 1,
                        !.targets = DictSet(@, targ,
                            (IF DictHas(st.targets, targ)
                             THEN DictGet(st.targets, targ) ELSE 0) + 1)]

RECURSIVE samSummaryLoop(_, _, _)
samSummaryLoop(st, rows, i) ==
    IF i > Len(rows) \/ st.exc # "ok" THEN st
    ELSE samSummaryLoop(samSummaryStep(st, rows[i]), rows, i + 1)

\* samSummary(sam) (lines 111-123)
samSummary(text) ==
    IF text = NoFile THEN [exc |-> "IOError"]
    ELSE LET st == samSummaryLoop([unaligned |-> 0, aligned |-> 0, targets |-> <<>>,
                                   exc |-> "ok"], CsvRows(text), 1)
         IN  IF st.exc # "ok" THEN [exc |-> st.exc]
             ELSE [exc |-> "ok", val |-> <<st.unaligned, st.aligned, st.targets>>]

\* splitSAMStep taking the first '_' piece of the query ID as the UMI
splitSAMStep_FirstPiece(st, line) ==
    IF StartsWith(line, <<"@">>) THEN [st EXCEPT !.header = @ \o line]
    ELSE LET parts == Split(RStrip(line), "\t")
         IN  IF Len(parts) < 3 THEN [st EXCEPT !.exc = "ValueError"]
             ELSE LET qId == parts[1]
                      dsptagID == parts[3]
                      us == Split(qId, "_")
                      umi == us[1]
                      old == IF DictHas(st.umiCounts, dsptagID)
                             THEN DictGet(st.umiCounts, dsptagID) ELSE <<>>
                      n == IF DictHas(old, umi) THEN DictGet(old, umi) ELSE 0
                      ls == IF DictHas(st.linesByTag, dsptagID)
                            THEN DictGet(st.linesByTag, dsptagID) ELSE <<>>
                  IN  IF dsptagID = <<"*">> THEN st
                      ELSE [st EXCEPT
                               !.alnCount = @ + 1,
                               !.umiCounts = DictSet(@, dsptagID, DictSet(old, umi, n + 1)),
                               !.linesByTag = DictSet(@, dsptagID,
                                                      Append(ls, RStrip(line)))]

\* the body of the loop of splitSAM (lines 216-233)
splitSAMStep(st, line) ==
    IF StartsWith(line, <<"@">>) THEN [st EXCEPT !.header = @ \o line]
    ELSE LET parts == Split(RStrip(line), "\t")
         IN  IF Len(parts) < 3 THEN [st EXCEPT !.exc = "ValueError"]
             ELSE LET qId == parts[1]
                      dsptagID == parts[3]
                      us == Split(qId, "_")
                      umi == us[Len(us)]
                      old == IF DictHas(st.umiCounts, dsptagID)
                             THEN DictGet(st.umiCounts, dsptagID) ELSE <<>>
                      n == IF DictHas(old, umi) THEN DictGet(old, umi) ELSE 0
                      ls == IF DictHas(st.linesByTag, dsptagID)
                            THEN DictGet(st.linesByTag, dsptagID) ELSE <<>>
                  IN  IF dsptagID = <<"*">> THEN st
                      ELSE [st EXCEPT
                               !.alnCount = @ + 1,
                               !.umiCounts = DictSet(@, dsptagID, DictSet(old, umi, n + 1)),
                               !.linesByTag = DictSet(@, dsptagID,
                                                      Append(ls, RStrip(line)))]

RECURSIVE splitSAMLoop(_, _, _)
splitSAMLoop(st, lines, i) ==
    IF i > Len(lines) \/ st.exc # "ok" THEN st
    ELSE splitSAMLoop(splitSAMStep(st, lines[i]), lines, i + 1)

\* samFile.replace('.sam', '_%s.sam' % dsptagID) (line 238)
outNameOf(samFile, dsptagID) ==
    ReplaceSub(samFile, <<".", "sam">>, <<"_">> \o dsptagID \o <<".", "sam">>)

\* the loop that writes the outputs of splitSAM (lines 236-242): the dict
\* returned and the files written, later ones over earlier ones
RECURSIVE splitSAMWrite(_, _, _, _)
splitSAMWrite(st, samFile, i, out) ==
    IF i > Len(st.linesByTag) THEN out
    ELSE LET dsptagID == st.linesByTag[i][1]
             tagLines == st.linesByTag[i][2]
             outName == outNameOf(samFile, dsptagID)
             body == st.header \o Join(tagLines, <<"\n">>)
         IN  splitSAMWrite(st, samFile, i + 1,
                 [outFiles |-> DictSet(out.outFiles, outName,
                                       Len(DictGet(st.umiCounts, dsptagID))),
                  written |-> DictSet(out.written, outName, body)])

\* splitSAM(samFile) (lines 207-243)
splitSAM(samFile, text) ==
    IF text = NoFile THEN [exc |-> "IOError", written |-> <<>>]
    ELSE LET st == splitSAMLoop([header |-> <<>>, alnCount |-> 0, umiCounts |-> <<>>,
                                 linesByTag |-> <<>>, exc |-> "ok"],
                                ReadLinesKeep(text), 1)
             out == splitSAMWrite(st, samFile, 1, [outFiles |-> <<>>, written |-> <<>>])
         IN  IF st.exc # "ok" THEN [exc |-> st.exc, written |-> <<>>]
             ELSE [exc |-> "ok", val |-> <<out.outFiles, st.alnCount>>,
                   written |-> out.written]

\* fileLines(fName) (lines 75-85): for an empty file i is never bound
fileLines(text) ==
    IF text = NoFile THEN [exc |-> "IOError"]
    ELSE IF Len(ReadLines(text)) = 0 THEN [exc |-> "UnboundLocalError"]
    ELSE [exc |-> "ok", val |-> Len(ReadLines(text))]

\* fastqReads(fName) (lines 93-97); the files of the model hold whole
\* records (a multiple of 4 lines), for which the quotient is a whole number
fastqReads(text) ==
    LET n == fileLines(text)
    IN  IF n.exc # "ok" THEN 0 ELSE n.val \div 4

\* the value summaryInfo.update takes from a .sam file (lines 364-365): the
\* first item of the tuple samSummary returns
updateSamValue(text) ==
    LET r == samSummary(text)
    IN  IF r.exc # "ok" THEN r ELSE [exc |-> "ok", val |-> r.val[1]]

\* update without the test of the step name
update_AnyStep(self, step, stepFile, forceVal, text) ==
    LET v == IF forceVal # 0 THEN [exc |-> "ok", val |-> forceVal]
             ELSE IF EndsWith(stepFile, <<"fq">>) \/ EndsWith(stepFile, <<"fastq">>)
                     \/ EndsWith(stepFile, <<"fastq", ".", "gz">>)
                  THEN [exc |-> "ok", val |-> fastqReads(text)]
             ELSE IF EndsWith(stepFile, <<"sam">>) THEN updateSamValue(text)
             ELSE [exc |-> "Exception"]
    IN  IF v.exc # "ok" THEN [o |-> self, exc |-> v.exc]
        ELSE [o |-> [self EXCEPT !.vals = DictSet(@, step, v.val)],
              exc |-> "ok", val |-> (v.val # 0)]

\* summaryInfo.update(self, step, stepFile, forceVal) (lines 353-376)
update(self, step, stepFile, forceVal, text) ==
    IF ~Contains(steps, step) THEN [o |-> self, exc |-> "Exception"]
    ELSE LET v == IF forceVal # 0 THEN [exc |-> "ok", val |-> forceVal]
                  ELSE IF EndsWith(stepFile, <<"fq">>) \/ EndsWith(stepFile, <<"fastq">>)
                          \/ EndsWith(stepFile, <<"fastq", ".", "gz">>)
                       THEN [exc |-> "ok", val |-> fastqReads(text)]
                  ELSE IF EndsWith(stepFile, <<"sam">>) THEN updateSamValue(text)
                  ELSE [exc |-> "Exception"]
         IN  IF v.exc # "ok" THEN [o |-> self, exc |-> v.exc]
             ELSE [o |-> [self EXCEPT !.vals = DictSet(@, step, v.val)],
                   exc |-> "ok", val |-> (v.val # 0)]

(***************************************************************************)
(* Table builders                                                          *)
(***************************************************************************)
\* the order of str: character by character, by code point; the atoms that
\* occur in analyte names, in code-point order
CodePoints == <<"3", "5", "A", "B", "C">>

AtomLess(a, b) == Index(CodePoints, a) < Index(CodePoints, b)

RECURSIVE StrLess(_, _)
StrLess(a, b) ==
    IF b = <<>> THEN FALSE
    ELSE IF a = <<>> THEN TRUE
    ELSE IF a[1] = b[1] THEN StrLess(Tail(a), Tail(b))
    ELSE AtomLess(a[1], b[1])

\* list(set(names)) followed by .sort() (lines 280-283)
RECURSIVE sortedNames(_)
sortedNames(S) ==
    IF S = {} THEN <<>>
    ELSE LET m == CHOOSE x \in S : \A y \in S \ {x} : StrLess(x, y)
         IN  <<m>> \o sortedNames(S \ {m})

RECURSIVE allAnalytes(_, _)
allAnalytes(dccobjs, i) ==
    IF i > Len(dccobjs) THEN {}
    ELSE DictKeySet(dccobjs[i].codesum) \cup allAnalytes(dccobjs, i + 1)

\* orderedCountsOf reading the second field of every row, whatever the
\* Count position of the file
orderedCountsOf_SecondField(dcc, rstnames) ==
    IF \E i \in 1..Len(rstnames) :
           /\ DictHas(dcc.codesum, rstnames[i])
           /\ 2 > Len(DictGet(dcc.codesum, rstnames[i]))
    THEN [exc |-> "IndexError"]
    ELSE [exc |-> "ok", val |->
             [i \in 1..Len(rstnames) |->
                 IF DictHas(dcc.codesum, rstnames[i])
                 THEN DictGet(dcc.codesum, rstnames[i])[2]
                 ELSE IntCell(0)]]

\* dcc.codesum.get(rst, [0]*99)[dcc.countcol] for each rst (line 286)
orderedCountsOf(dcc, rstnames) ==
    IF \E i \in 1..Len(rstnames) :
           /\ DictHas(dcc.codesum, rstnames[i])
           /\ dcc.countcol + 1 > Len(DictGet(dcc.codesum, rstnames[i]))
    THEN [exc |-> "IndexError"]
    ELSE [exc |-> "ok", val |->
             [i \in 1..Len(rstnames) |->
                 IF DictHas(dcc.codesum, rstnames[i])
                 THEN DictGet(dcc.codesum, rstnames[i])[dcc.countcol + 1]
                 ELSE IntCell(0)]]

\* the loop that fills the data frame, one column per sample ID (lines
\* 285-287): assigning to a column that exists replaces it
RECURSIVE countTableLoop(_, _, _, _)
countTableLoop(dccobjs, rstnames, i, df) ==
    IF i > Len(dccobjs) THEN [exc |-> "ok", val |-> df]
    ELSE LET dcc == dccobjs[i]
             oc == orderedCountsOf(dcc, rstnames)
         IN  IF oc.exc # "ok" THEN [exc |-> oc.exc]
             ELSE IF ~DictHas(dcc.scanattribs, STR_ID) THEN [exc |-> "KeyError"]
             ELSE countTableLoop(dccobjs, rstnames, i + 1,
                      DictSet(df, DictGet(dcc.scanattribs, STR_ID).v, oc.val))

\* df.transpose(), the column names, and the Sample_ID column put first
\* (lines 289-292 and 310-313)
tableOf(df, colnames) ==
    [columns |-> << <<"Sample_ID">> >> \o colnames,
     rows |-> [i \in 1..Len(df) |-> <<StrCell(df[i][1])>> \o df[i][2]]]

\* generateCountTable(dccobjs) (lines 279-294)
generateCountTable(dccobjs) ==
    LET rstnames == sortedNames(allAnalytes(dccobjs, 1))
        r == countTableLoop(dccobjs, rstnames, 1, <<>>)
    IN  IF r.exc # "ok" THEN r
        ELSE [exc |-> "ok", val |-> tableOf(r.val, rstnames)]

\* sum(dcc.analytecounts().values())
RECURSIVE SumValues(_)
SumValues(d) == IF d = <<>> THEN 0 ELSE d[1][2] + SumValues(Tail(d))

\* the loop of pipelineSummaryTable (lines 305-308)
RECURSIVE summaryTableLoop(_, _, _)
summaryTableLoop(dccObjs, i, df) ==
    IF i > Len(dccObjs) THEN [exc |-> "ok", val |-> df]
    ELSE LET dcc == dccObjs[i]
             ac == analytecounts(dcc)
             dsum == getSummary(dcc)
         IN  IF ac.exc # "ok" THEN [exc |-> ac.exc]
             ELSE IF dsum.exc # "ok" THEN [exc |-> dsum.exc]
             ELSE LET oc == orderedCounts(dsum.val)
                      cells == [k \in 1..Len(oc) |-> IntCell(oc[k])]
                               \o <<IntCell(SumValues(ac.val))>>
                  IN  summaryTableLoop(dccObjs, i + 1,
                                       DictSet(df, dsum.val.fRoot, cells))

\* pipelineSummaryTable(dccObjs) (lines 303-315): dsum is bound by the loop
\* body only
pipelineSummaryTable(dccObjs) ==
    LET r == summaryTableLoop(dccObjs, 1, <<>>)
    IN  IF r.exc # "ok" THEN r
        ELSE IF Len(dccObjs) = 0 THEN [exc |-> "UnboundLocalError"]
        ELSE [exc |-> "ok", val |-> tableOf(r.val, steps \o << <<"Unique">> >>)]

(***************************************************************************)
(* Alignment files: samSummary and splitSAM on every small file            *)
(***************************************************************************)
MaxSamLines == 4

SamPath == <<"in", ".", "sam">>
QIds == { <<"q1", "_", "AAAA">>, <<"q2", "_", "x", "_", "AAAA">>, <<"q3", "_", "BBBB">> }
Targets == { <<"*">>, <<"TUBB">>, <<"ACTB">> }

\* the lines an alignment file is made of: a header line or a record
SamItems == {[kind |-> "hdr", q |-> <<>>, t |-> <<>>]}
            \cup {[kind |-> "rec", q |-> q, t |-> <<"TUBB">>] : q \in QIds}
            \cup {[kind |-> "rec", q |-> <<"q1", "_", "AAAA">>, t |-> t] : t \in Targets}
            \cup {[kind |-> "rec", q |-> <<"q3", "_", "BBBB">>, t |-> <<"ACTB">>]}

SeqsUpTo(S, n) == UNION {[1..k -> S] : k \in 0..n}

SamLineOf(it) ==
    IF it.kind = "hdr" THEN <<"@", "HD", "\t", "VN:1">>
    ELSE it.q \o <<"\t", "0", "\t">> \o it.t

\* the text of the file: every line ends with a line end
RECURSIVE SamTextOf(_)
SamTextOf(items) ==
    IF items = <<>> THEN <<>>
    ELSE SamLineOf(items[1]) \o <<"\n">> \o SamTextOf(Tail(items))

NoRet == [op |-> "none"]

InitSam ==
    /\ arg \in {[items |-> its] : its \in SeqsUpTo(SamItems, MaxSamLines)}
    /\ fs = (SamPath :> SamTextOf(arg.items))
    /\ objs = <<>>
    /\ sumObj = NoObj
    /\ ret = NoRet

CallSamSummary ==
    /\ ret = NoRet
    /\ ret' = [op |-> "samSummary", r |-> samSummary(fs[SamPath])]
    /\ UNCHANGED <<fs, objs, sumObj, arg>>

\* the file system after a call has written the files of the dict written
WriteAll(files, written) ==
    [p \in DOMAIN files \cup DictKeySet(written) |->
        IF DictHas(written, p) THEN DictGet(written, p) ELSE files[p]]

CallSplitSAM ==
    /\ ret = NoRet
    /\ LET r == splitSAM(SamPath, fs[SamPath])
       IN  /\ ret' = [op |-> "splitSAM", r |-> r]
           /\ fs' = WriteAll(fs, r.written)
    /\ UNCHANGED <<objs, sumObj, arg>>

NextSam == CallSamSummary \/ CallSplitSAM

SpecSam == InitSam /\ [][NextSam]_vars

\* what the claims say of an alignment file, counted from its items
RecIdx(items) == {i \in 1..Len(items) : items[i].kind = "rec"}
UnalignedIdx(items) == {i \in RecIdx(items) : items[i].t = <<"*">>}
AlignedIdx(items) == RecIdx(items) \ UnalignedIdx(items)
TargetIdx(items, t) == {i \in AlignedIdx(items) : items[i].t = t}
TargetsSeen(items) == {items[i].t : i \in AlignedIdx(items)}

\* C6: samSummary returns (number of records with target *, number of
\* records with another target, per-target record counts): * is no key, the
\* per-target counts sum to the aligned count, both counts sum to the number
\* of records, and header lines count nowhere.
C6_SamSummary ==
    ret.op = "samSummary" =>
        /\ ret.r.exc = "ok"
        /\ ret.r.val[1] = Cardinality(UnalignedIdx(arg.items))
        /\ ret.r.val[2] = Cardinality(AlignedIdx(arg.items))
        /\ DictKeySet(ret.r.val[3]) = TargetsSeen(arg.items)
        /\ <<"*">> \notin DictKeySet(ret.r.val[3])
        /\ Len(ret.r.val[3]) = Cardinality(TargetsSeen(arg.items))
        /\ \A t \in TargetsSeen(arg.items) :
               DictGet(ret.r.val[3], t) = Cardinality(TargetIdx(arg.items, t))
        /\ SumValues(ret.r.val[3]) = ret.r.val[2]
        /\ ret.r.val[1] + ret.r.val[2] = Cardinality(RecIdx(arg.items))
        /\ ([k \in 1..Len(arg.items) |-> arg.items[k].t]
                = << <<"TUBB">>, <<"*">>, <<"TUBB">>, <<"ACTB">> >>
            => ret.r.val = <<1, 3, << <<<<"TUBB">>, 2>>, <<<<"ACTB">>, 1>> >> >>)

\* C6 witness: the summary of TUBB, *, TUBB, ACTB has been returned
C6_Witness ==
    /\ ret.op = "samSummary"
    /\ [k \in 1..Len(arg.items) |-> arg.items[k].t]
           = << <<"TUBB">>, <<"*">>, <<"TUBB">>, <<"ACTB">> >>
    /\ ret.r.val = <<1, 3, << <<<<"TUBB">>, 2>>, <<<<"ACTB">>, 1>> >> >>

\* the UMI of a query id: what follows its last "_" (all of it without one)
UmiOf(q) ==
    LET us == {i \in 1..Len(q) : q[i] = "_"}
        last == IF us = {} THEN 0 ELSE CHOOSE i \in us : \A j \in us : j <= i
    IN  SubSeq(q, last + 1, Len(q))

ItemsOfTarget(items, t) ==
    SelectSeq(items, LAMBDA it : it.kind = "rec" /\ it.t = t)
HeaderItems(items) == SelectSeq(items, LAMBDA it : it.kind = "hdr")
SplitNameOf(t) == <<"in", "_">> \o t \o <<".", "sam">>
SplitBodyOf(items, t) ==
    SamTextOf(HeaderItems(items)) \o
    Join([k \in 1..Len(ItemsOfTarget(items, t)) |->
             SamLineOf(ItemsOfTarget(items, t)[k])], <<"\n">>)

MaxCalls == 2

Rec(t) == [kind |-> "rec", q |-> <<"q1", "_", "AAAA">>, t |-> t]
Hdr == [kind |-> "hdr", q |-> <<>>, t |-> <<>>]

\* the alignment files a stage is updated from
StageSams == { <<Hdr>>,
               <<Hdr, Rec(<<"TUBB">>)>>,
               <<Hdr, Rec(<<"*">>), Rec(<<"*">>), Rec(<<"TUBB">>)>>,
               <<Hdr, Rec(<<"TUBB">>), Rec(<<"*">>), Rec(<<"TUBB">>), Rec(<<"ACTB">>)>> }

\* the fastq files: whole records of four lines
FastqRecords == {0, 1, 2}

RECURSIVE FastqTextOf(_)
FastqTextOf(n) ==
    IF n = 0 THEN <<>>
    ELSE <<"@r", "\n", "ACGT", "\n", "+", "\n", "IIII", "\n">> \o FastqTextOf(n - 1)

StageSam == <<"s", ".", "sam">>
StageFq == <<"s", ".", "fq">>
StageGz == <<"s", ".", "fastq", ".", "gz">>
StageTxt == <<"s", ".", "txt">>
StageGone == <<"gone", ".", "sam">>
StagePaths == {StageSam, StageFq, StageGz, StageTxt, StageGone}

StepNames == {steps[i] : i \in 1..Len(steps)} \cup { <<"Unique">> }
ForceVals == {0, 7}

InitStage ==
    /\ arg \in {[items |-> its, reads |-> n] : its \in StageSams, n \in FastqRecords}
    /\ fs = [p \in StagePaths |->
                IF p = StageSam THEN SamTextOf(arg.items)
                ELSE IF p \in {StageFq, StageGz, StageTxt} THEN FastqTextOf(arg.reads)
                ELSE NoFile]
    /\ objs = <<>>
    /\ sumObj = summaryInfo_init(<<"S1">>)
    /\ ret = [op |-> "none", n |-> 0]

CallUpdate(step, stepFile, forceVal) ==
    /\ ret.n < MaxCalls
    /\ LET r == update(sumObj, step, stepFile, forceVal, fs[stepFile])
       IN  /\ sumObj' = r.o
           /\ ret' = [op |-> "update", n |-> ret.n + 1, step |-> step,
                      stepFile |-> stepFile, forceVal |-> forceVal,
                      exc |-> r.exc,
                      val |-> IF r.exc = "ok" THEN r.val ELSE FALSE]
    /\ UNCHANGED <<fs, objs, arg>>

NextStage ==
    \E step \in StepNames, stepFile \in StagePaths, forceVal \in ForceVals :
        CallUpdate(step, stepFile, forceVal)

SpecStage == InitStage /\ [][NextStage]_vars

\* C5: an update without override from a file with the alignment extension
\* stores the number of records whose target is not * (the aligned count)
\* and returns whether that count is nonzero.
C5_UpdateStoresAligned ==
    (/\ ret.op = "update"
     /\ ret.forceVal = 0
     /\ ret.stepFile = StageSam
     /\ Contains(steps, ret.step))
    => /\ ret.exc = "ok"
       /\ DictGet(sumObj.vals, ret.step) = Cardinality(AlignedIdx(arg.items))
       /\ ret.val = (Cardinality(AlignedIdx(arg.items)) # 0)

\* what the code stores instead: the number of records with target *
C5_StoresUnaligned ==
    (/\ ret.op = "update"
     /\ ret.forceVal = 0
     /\ ret.stepFile = StageSam
     /\ Contains(steps, ret.step))
    => /\ ret.exc = "ok"
       /\ DictGet(sumObj.vals, ret.step) = Cardinality(UnalignedIdx(arg.items))
       /\ ret.val = (Cardinality(UnalignedIdx(arg.items)) # 0)

(***************************************************************************)
(* Count files: importDCC on files with and without a label row            *)
(***************************************************************************)
MaxRows == 3

Open(name) == <<"<", name, ">">>
Close(name) == <<"<", "/", name, ">">>

\* the text of a file: every line ends with a line end
RECURSIVE TextOfLines(_)
TextOfLines(lines) ==
    IF lines = <<>> THEN <<>>
    ELSE lines[1] \o <<"\n">> \o TextOfLines(Tail(lines))

\* the three attribute sections that precede Code_Summary
AttrSections(id, stageLines, overcounts) ==
    << Open("Header"), <<"FileVersion", ",", "0", ".", "01">>, Close("Header"), <<>>,
       Open("Scan_Attributes"), <<"ID", ",">> \o id, Close("Scan_Attributes"), <<>>,
       Open("NGS_Processing_Attributes") >> \o stageLines \o
    << <<"Overcounts", ",">> \o overcounts, Close("NGS_Processing_Attributes"), <<>> >>

\* the Code_Summary section: the label row, when there is one, and the rows
CodeSummary(label, rows) ==
    << Open("Code_Summary") >> \o label \o
    [i \in 1..Len(rows) |-> Join(rows[i], <<",">>)] \o
    << Close("Code_Summary") >>

LabelLine(lab) == << Join(lab, <<",">>) >>

GoodPrefix == AttrSections(<<"S1">>, << <<"Raw", ",", "5">> >>, <<"A", ",", "B">>)
Prefixes == { <<>>, GoodPrefix }

\* the rows of the analyte tables, as lists of fields
ParseRows == { << <<"A">>, <<"3">> >>, << <<"A">>, <<"5">> >>, << <<"B">>, <<"5">> >>,
               << <<"5">>, <<"A">> >>,
               << <<"A">>, <<"3">>, <<"x">> >>, << <<"x">>, <<"B">>, <<"5">> >> }

\* the label rows
Labels == { <<STR_Name, STR_Count>>, <<STR_Count, STR_Name>>,
            << <<"Class">>, STR_Name, STR_Count >>,
            << STR_Name, STR_Count, <<"Class">> >> }

LabFile == <<"lab", ".", "dcc">>
NoLabFile == <<"nolab", ".", "dcc">>

InitParse ==
    /\ arg \in {[rows |-> rs, label |-> lab, prefix |-> pre] :
                   rs \in SeqsUpTo(ParseRows, MaxRows), lab \in Labels, pre \in Prefixes}
    /\ fs = (LabFile :> TextOfLines(arg.prefix \o
                            CodeSummary(LabelLine(arg.label), arg.rows)))
            @@ (NoLabFile :> TextOfLines(arg.prefix \o CodeSummary(<<>>, arg.rows)))
    /\ objs = [o \in {"o1", "o2"} |-> dccfile_init]
    /\ sumObj = NoObj
    /\ ret = [op |-> "none", obj |-> "", outcome |-> [o \in {"o1", "o2"} |-> "none"]]

\* obj.importDCC(path) on the object obj, once for each object
CallImportDCC(obj, path) ==
    /\ ret.outcome[obj] = "none"
    /\ LET r == importDCC(objs[obj], fs[path])
       IN  /\ objs' = [objs EXCEPT ![obj] = r.o]
           /\ ret' = [op |-> "importDCC", obj |-> obj,
                      outcome |-> [ret.outcome EXCEPT ![obj] = r.exc]]
    /\ UNCHANGED <<fs, sumObj, arg>>

NextParse == CallImportDCC("o1", LabFile) \/ CallImportDCC("o2", NoLabFile)

SpecParse == InitParse /\ [][NextParse]_vars

\* what the claims say of a Code_Summary section, from its label and rows
NameColOf(obj) == IF obj = "o1" THEN Index(arg.label, STR_Name) ELSE 0
NameValue(obj, i) == arg.rows[i][NameColOf(obj) + 1]
RepeatedName(obj) ==
    \E i, j \in 1..Len(arg.rows) : i < j /\ NameValue(obj, i) = NameValue(obj, j)
RowsAsStored(obj) ==
    [i \in 1..Len(arg.rows) |-> <<NameValue(obj, i), CellsOf(arg.rows[i])>>]

\* C2: a Code_Summary section in which two data rows have the same value
\* in the Name column makes importDCC end in a fatal error, with a label row
\* (o1) and without one (o2); a parse that completes holds every row under
\* its own name, none overwritten.
C2_RepeatIsFatal ==
    \A obj \in {"o1", "o2"} :
        /\ (ret.outcome[obj] # "none" /\ RepeatedName(obj))
               => ret.outcome[obj] = "Exception"
        /\ ret.outcome[obj] = "ok"
               => /\ ~RepeatedName(obj)
                  /\ Len(objs[obj].codesum) = Len(arg.rows)
                  /\ DictKeys(objs[obj].codesum) =
                         [i \in 1..Len(arg.rows) |-> NameValue(obj, i)]

\* C2 witness: both files, whose first two data rows share their name, have
\* been refused
C2_Witness ==
    /\ Len(arg.rows) >= 2
    /\ NameValue("o1", 1) = NameValue("o1", 2)
    /\ NameValue("o2", 1) = NameValue("o2", 2)
    /\ ret.outcome["o1"] = "Exception"
    /\ ret.outcome["o2"] = "Exception"

TwoFieldRows == \A i \in 1..Len(arg.rows) : Len(arg.rows[i]) = 2

\* the parse of the file with the label row: the label's positions are the
\* Name and Count indices, every row is stored, the label row is not
LabelledParse ==
    (ret.outcome["o1"] # "none" /\ ~RepeatedName("o1"))
    => /\ ret.outcome["o1"] = "ok"
       /\ objs["o1"].codelabs = arg.label
       /\ objs["o1"].namecol = Index(arg.label, STR_Name)
       /\ objs["o1"].countcol = Index(arg.label, STR_Count)
       /\ objs["o1"].codesum = RowsAsStored("o1")

\* the parse of the file without a label row: the first line is the first
\* data row, Name at index 0 and Count at index 1
LabellessParse ==
    (ret.outcome["o2"] # "none" /\ ~RepeatedName("o2"))
    => /\ ret.outcome["o2"] = "ok"
       /\ objs["o2"].codesum = RowsAsStored("o2")
       /\ arg.rows # <<>> => /\ objs["o2"].codelabs = <<STR_Name, STR_Count>>
                             /\ objs["o2"].namecol = 0
                             /\ objs["o2"].countcol = 1

BothParsed ==
    /\ ret.outcome["o1"] # "none" /\ ret.outcome["o2"] # "none"
    /\ ~RepeatedName("o1") /\ ~RepeatedName("o2")

\* C3 (as stated): with a label row holding Name and Count (wherever they
\* stand) the parse records their positions and stores every following line;
\* without a label row the first line is the first data row, Name at 0 and
\* Count at 1; and for two-field rows both parses give the same
\* analytecounts().
C3_AsStated ==
    /\ LabelledParse
    /\ LabellessParse
    /\ (BothParsed /\ TwoFieldRows)
           => analytecounts(objs["o1"]) = analytecounts(objs["o2"])

\* C3 amended: as stated, but the two parses are said to give the same
\* analytecounts() only when Name and Count are the first and the second
\* token of the label row.
C3_SchemaDetection ==
    /\ LabelledParse
    /\ LabellessParse
    /\ (/\ BothParsed /\ TwoFieldRows
        /\ Index(arg.label, STR_Name) = 0 /\ Index(arg.label, STR_Count) = 1)
           => analytecounts(objs["o1"]) = analytecounts(objs["o2"])

\* C3 witness: the rows A,3 and B,5 have been parsed under the label row
\* Name,Count and without it, with the same counts
C3_Witness ==
    /\ arg.rows = << << <<"A">>, <<"3">> >>, << <<"B">>, <<"5">> >> >>
    /\ arg.label = <<STR_Name, STR_Count>>
    /\ ret.outcome = [o \in {"o1", "o2"} |-> "ok"]
    /\ analytecounts(objs["o1"]).val = << <<<<"A">>, 3>>, <<<<"B">>, 5>> >>
    /\ analytecounts(objs["o2"]).val = << <<<<"A">>, 3>>, <<<<"B">>, 5>> >>

\* C10: an importDCC that ends in a fatal error leaves the object it was
\* called on as it was before the call.
C10_FailureAtomic ==
    [][(ret'.op = "importDCC" /\ ret'.outcome[ret'.obj] # "ok")
           => objs'[ret'.obj] = objs[ret'.obj]]_vars

(***************************************************************************)
(* Count files: write and read back                                        *)
(***************************************************************************)
MaxRtRows == 2

RtRows == { << <<"A">>, <<"3">> >>, << <<"B">>, <<"5">> >>,
            << <<"A">>, <<"3">>, <<"x">> >>, << <<"x">>, <<"B">>, <<"5">> >> }

\* no label row (the new schema), or a label row (the old one)
RtLabels == { <<>>, LabelLine(<<STR_Name, STR_Count>>),
              LabelLine(<< <<"Class">>, STR_Name, STR_Count >>) }

Comments == { <<>>, <<"c">>, <<"c", ",", "d">> }

SrcFile == <<"src", ".", "dcc">>
UnixFile == <<"u", ".", "dcc">>
WinFile == <<"w", ".", "dcc">>

\* f is the CountFile written; u and w are read back from the two files
InitRoundTrip ==
    /\ arg \in {[rows |-> rs, label |-> lab] :
                   rs \in SeqsUpTo(RtRows, MaxRtRows), lab \in RtLabels}
    /\ fs = (SrcFile :> TextOfLines(
                 AttrSections(<<"S1">>, << <<"Raw", ",", "5">>, <<"Aligned", ",", "3">> >>,
                              <<"A">>)
                 \o CodeSummary(arg.label, arg.rows)))
            @@ (UnixFile :> NoFile) @@ (WinFile :> NoFile)
    /\ objs = [o \in {"f", "u", "w"} |-> dccfile_init]
    /\ sumObj = summaryInfo_init(<<"S1">>)
    /\ ret = [op |-> "none", made |-> FALSE,
              outcome |-> [o \in {"u", "w"} |-> "none"]]

\* f = dccfile(src.dcc)
CallLoad ==
    /\ ~ret.made
    /\ objs' = [objs EXCEPT !["f"] = importDCC(objs["f"], fs[SrcFile]).o]
    /\ ret' = [ret EXCEPT !.op = "importDCC", !.made = TRUE]
    /\ UNCHANGED <<fs, sumObj, arg>>

\* f = dccfile(); f.countlessdcc(sumObj, comments)
CallCountless(comments) ==
    /\ ~ret.made
    /\ objs' = [objs EXCEPT !["f"] = countlessdcc(objs["f"], sumObj, comments)]
    /\ ret' = [ret EXCEPT !.op = "countlessdcc", !.made = TRUE]
    /\ UNCHANGED <<fs, sumObj, arg>>

\* f.unixwrite(u.dcc)
CallUnixWrite ==
    /\ ret.made /\ fs[UnixFile] = NoFile
    /\ unixwrite(objs["f"]).exc = "ok"
    /\ fs' = [fs EXCEPT ![UnixFile] = unixwrite(objs["f"]).val]
    /\ ret' = [ret EXCEPT !.op = "unixwrite"]
    /\ UNCHANGED <<objs, sumObj, arg>>

\* f.windowswrite(w.dcc)
CallWindowsWrite ==
    /\ ret.made /\ fs[WinFile] = NoFile
    /\ windowswrite(objs["f"]).exc = "ok"
    /\ fs' = [fs EXCEPT ![WinFile] = windowswrite(objs["f"]).val]
    /\ ret' = [ret EXCEPT !.op = "windowswrite"]
    /\ UNCHANGED <<objs, sumObj, arg>>

\* obj = dccfile(path) for a file that has been written
CallReadBack(obj, path) ==
    /\ fs[path] # NoFile /\ ret.outcome[obj] = "none"
    /\ LET r == importDCC(objs[obj], fs[path])
       IN  /\ objs' = [objs EXCEPT ![obj] = r.o]
           /\ ret' = [ret EXCEPT !.op = "importDCC", !.outcome[obj] = r.exc]
    /\ UNCHANGED <<fs, sumObj, arg>>

NextRoundTrip ==
    \/ CallLoad
    \/ \E c \in Comments : CallCountless(c)
    \/ CallUnixWrite
    \/ CallWindowsWrite
    \/ CallReadBack("u", UnixFile)
    \/ CallReadBack("w", WinFile)

SpecRoundTrip == InitRoundTrip /\ [][NextRoundTrip]_vars

\* the content of a CountFile: the text of every value, whatever its type
TextOfDict(d) == [i \in 1..Len(d) |-> <<d[i][1], d[i][2].v>>]
ContentOf(o) ==
    [header |-> TextOfDict(o.header),
     scanattribs |-> TextOfDict(o.scanattribs),
     ngsattribs |-> TextOfDict(o.ngsattribs),
     codelabs |-> o.codelabs,
     codesum |-> [i \in 1..Len(o.codesum) |->
                     <<o.codesum[i][1],
                       [k \in 1..Len(o.codesum[i][2]) |-> o.codesum[i][2][k].v]>>]]

\* C1: a CountFile written by unixwrite or by windowswrite and read back by
\* importDCC has the header, scan attributes, processing attributes and
\* analyte table it had, with either line ending and both alike.
C1_RoundTrip ==
    /\ \A x \in {"u", "w"} :
           ret.outcome[x] # "none"
               => /\ ret.outcome[x] = "ok"
                  /\ ContentOf(objs[x]) = ContentOf(objs["f"])
    /\ (ret.outcome["u"] # "none" /\ ret.outcome["w"] # "none")
           => objs["u"] = objs["w"]

\* what holds of the round trip: it keeps every CountFile none of whose
\* attribute values holds a comma
NoCommaIn(d) == \A i \in 1..Len(d) : ~Contains(d[i][2].v, ",")
RoundTripWithoutCommas ==
    (/\ NoCommaIn(objs["f"].header) /\ NoCommaIn(objs["f"].scanattribs)
     /\ NoCommaIn(objs["f"].ngsattribs))
    => C1_RoundTrip

(***************************************************************************)
(* Count files: addcounts                                                  *)
(***************************************************************************)
MergeNames == { <<"A">>, <<"B">> }
MergeCounts == { <<"3">>, <<"5">> }

\* analyte tables: lists of <<name, count>> with distinct names
MergeTables ==
    {t \in UNION {[1..k -> MergeNames \X MergeCounts] : k \in 0..Cardinality(MergeNames)} :
        \A i, j \in 1..Len(t) : i # j => t[i][1] # t[j][1]}

\* the schemas: no label row, or one of two label rows
MergeSchemas == {"new", "old2", "old3"}

SchemaLabel(sch) ==
    IF sch = "new" THEN <<>>
    ELSE IF sch = "old2" THEN LabelLine(<<STR_Name, STR_Count>>)
    ELSE LabelLine(<< <<"Class">>, STR_Name, STR_Count >>)

SchemaRows(sch, t) ==
    [i \in 1..Len(t) |-> IF sch = "old3" THEN << <<"x">>, t[i][1], t[i][2] >>
                         ELSE << t[i][1], t[i][2] >>]

\* the CountFile read from a file of that schema with that table
ParsedCountFile(id, stageLines, sch, t) ==
    importDCC(dccfile_init,
              TextOfLines(AttrSections(id, stageLines, <<>>)
                          \o CodeSummary(SchemaLabel(sch), SchemaRows(sch, t)))).o

\* a and b are the two CountFiles; ab is a copy of a on which addcounts(b)
\* is called, ba a copy of b on which addcounts(a) is called
InitMerge ==
    /\ arg \in {[a |-> [sch |-> sa, t |-> ta], b |-> [sch |-> sb, t |-> tb]] :
                   sa \in MergeSchemas, ta \in MergeTables,
                   sb \in MergeSchemas, tb \in MergeTables}
    /\ fs = <<>>
    /\ objs = [o \in {"a", "b", "ab", "ba"} |->
                  IF o \in {"a", "ab"}
                  THEN ParsedCountFile(<<"S1">>, <<>>, arg.a.sch, arg.a.t)
                  ELSE ParsedCountFile(<<"S2">>, <<>>, arg.b.sch, arg.b.t)]
    /\ sumObj = NoObj
    /\ ret = [op |-> "none", outcome |-> [o \in {"ab", "ba"} |-> "none"]]

\* objs[self].addcounts(objs[other])
CallAddCounts(self, other) ==
    /\ ret.outcome[self] = "none"
    /\ LET r == addcounts(objs[self], objs[other])
       IN  /\ objs' = [objs EXCEPT ![self] = r.o]
           /\ ret' = [op |-> "addcounts",
                      outcome |-> [ret.outcome EXCEPT ![self] = r.exc]]
    /\ UNCHANGED <<fs, sumObj, arg>>

NextMerge == CallAddCounts("ab", "b") \/ CallAddCounts("ba", "a")

SpecMerge == InitMerge /\ [][NextMerge]_vars

\* a dict as the set of its items
ItemSet(d) == {<<d[i][1], d[i][2]>> : i \in 1..Len(d)}

TableNames(t) == {t[i][1] : i \in 1..Len(t)}
TableCount(t, n) ==
    IF n \in TableNames(t)
    THEN IntOfText(t[CHOOSE i \in 1..Len(t) : t[i][1] = n][2]) ELSE 0

\* the totals the claim gives: a + b where both have the analyte, else the
\* count of the one that has it
MergedTotals ==
    {<<n, TableCount(arg.a.t, n) + TableCount(arg.b.t, n)>> :
        n \in TableNames(arg.a.t) \cup TableNames(arg.b.t)}

\* C4: analytecounts() after a.addcounts(b) and after b.addcounts(a) are the
\* same totals, a + b for an analyte of both and the count of the one that
\* has it otherwise, whichever schema a and b use.
C4_MergeCommutes ==
    /\ \A x \in {"ab", "ba"} :
           ret.outcome[x] # "none"
               => /\ analytecounts(objs[x]).exc = "ok"
                  /\ ItemSet(analytecounts(objs[x]).val) = MergedTotals
    /\ (ret.outcome["ab"] # "none" /\ ret.outcome["ba"] # "none")
           => ItemSet(analytecounts(objs["ab"]).val)
                  = ItemSet(analytecounts(objs["ba"]).val)

\* what holds of addcounts: the totals are those of C4 whenever the receiver
\* has a label row or at least one analyte row
MergeWithLabels ==
    \A x \in {"ab", "ba"} :
        (ret.outcome[x] # "none"
         /\ objs[IF x = "ab" THEN "a" ELSE "b"].codelabs # <<>>)
            => /\ ret.outcome[x] = "ok"
               /\ analytecounts(objs[x]).exc = "ok"
               /\ ItemSet(analytecounts(objs[x]).val) = MergedTotals

(***************************************************************************)
(* Table builders on collections of CountFiles                             *)
(***************************************************************************)
MaxFiles == 3

FullStages == << <<"Raw", ",", "5">>, <<"Trimmed", ",", "4">>,
                 <<"Stitched", ",", "3">>, <<"Aligned", ",", "2">> >>
PartStages == << <<"Raw", ",", "5">>, <<"Aligned", ",", "3">> >>

\* the CountFiles a collection is made of: sample ID, stage lines, schema
\* and analyte table
TableFiles ==
    { [id |-> <<"S1">>, stages |-> FullStages, sch |-> "new",
       t |-> << << <<"A">>, <<"5">> >> >>],
      [id |-> <<"S2">>, stages |-> FullStages, sch |-> "new",
       t |-> << << <<"B">>, <<"3">> >> >>],
      [id |-> <<"S1">>, stages |-> PartStages, sch |-> "old3",
       t |-> << << <<"B">>, <<"3">> >>, << <<"A">>, <<"5">> >> >>],
      [id |-> <<"S2">>, stages |-> PartStages, sch |-> "old2",
       t |-> << << <<"A", "B">>, <<"3">> >>, << <<"A">>, <<"5">> >> >>],
      [id |-> <<"S3">>, stages |-> <<>>, sch |-> "new", t |-> <<>>],
      [id |-> <<"S3">>, stages |-> FullStages, sch |-> "old2",
       t |-> << << <<"C">>, <<"5">> >>, << <<"B">>, <<"3">> >>, << <<"A">>, <<"3">> >> >>] }

\* objs is the collection dccobjs, each CountFile read from its file
InitTable ==
    /\ arg \in {[files |-> fl] : fl \in SeqsUpTo(TableFiles, MaxFiles)}
    /\ fs = <<>>
    /\ objs = [i \in 1..Len(arg.files) |->
                  ParsedCountFile(arg.files[i].id, arg.files[i].stages,
                                  arg.files[i].sch, arg.files[i].t)]
    /\ sumObj = NoObj
    /\ ret = NoRet

CallGenerateCountTable ==
    /\ ret = NoRet
    /\ ret' = [op |-> "generateCountTable", r |-> generateCountTable(objs)]
    /\ UNCHANGED <<fs, objs, sumObj, arg>>

CallPipelineSummaryTable ==
    /\ ret = NoRet
    /\ ret' = [op |-> "pipelineSummaryTable", r |-> pipelineSummaryTable(objs)]
    /\ UNCHANGED <<fs, objs, sumObj, arg>>

NextTable == CallGenerateCountTable \/ CallPipelineSummaryTable

SpecTable == InitTable /\ [][NextTable]_vars

\* what the claims say of a collection, from what its files were made of
AllNames == UNION {TableNames(arg.files[i].t) : i \in 1..Len(arg.files)}
StageOf(d, stp) ==
    LET hit == {k \in 1..Len(d.stages) : <<d.stages[k][1]>> = stp}
    IN  IF hit = {} THEN 0
        ELSE IntOfText(<<d.stages[CHOOSE k \in hit : TRUE][3]>>)
RECURSIVE TableTotal(_)
TableTotal(t) == IF t = <<>> THEN 0 ELSE IntOfText(t[1][2]) + TableTotal(Tail(t))
DistinctIds ==
    \A i, j \in 1..Len(arg.files) : i # j => arg.files[i].id # arg.files[j].id

\* row is the count-table row of the file d, under the analyte columns names
IsCountRowOf(row, d, names) ==
    /\ Len(row) = Len(names) + 1
    /\ row[1] = StrCell(d.id)
    /\ \A k \in 1..Len(names) :
           CanInt(row[k + 1]) /\ IntOf(row[k + 1]) = TableCount(d.t, names[k])

IsSummaryRowOf(row, d) ==
    /\ Len(row) = Len(steps) + 2
    /\ row[1] = StrCell(d.id)
    /\ \A k \in 1..Len(steps) : row[k + 1] = IntCell(StageOf(d, steps[k]))
    /\ row[Len(steps) + 2] = IntCell(TableTotal(d.t))

\* C9: pipelineSummaryTable returns, for any collection, the columns
\* Sample_ID, Raw, Trimmed, Stitched, Aligned, Unique; every row is the row
\* of an input file: its four stage counts (0 for a missing key) and the sum
\* of its analytecounts(); every sample ID has its row.
C9_SummaryTable ==
    ret.op = "pipelineSummaryTable" =>
        /\ ret.r.exc = "ok"
        /\ ret.r.val.columns = << <<"Sample_ID">>, <<"Raw">>, <<"Trimmed">>,
                                  <<"Stitched">>, <<"Aligned">>, <<"Unique">> >>
        /\ \A r \in 1..Len(ret.r.val.rows) :
               \E i \in 1..Len(arg.files) :
                   IsSummaryRowOf(ret.r.val.rows[r], arg.files[i])
        /\ \A i \in 1..Len(arg.files) :
               \E r \in 1..Len(ret.r.val.rows) :
                   ret.r.val.rows[r][1] = StrCell(arg.files[i].id)

\* what holds of pipelineSummaryTable: C9 for every collection that is not
\* empty
SummaryTableNonEmpty == arg.files # <<>> => C9_SummaryTable

(***************************************************************************)
(* mergeSAM                                                                *)
(***************************************************************************)
\* what grep writes to its standard output: the lines of the file that
\* start with '@' (grep ^@) or that do not (grep -v ^@), each with its line
\* end; nothing when the file cannot be read (grep then ends with status 2,
\* which os.system returns and mergeSAM does not look at)
GrepLines(text, header) ==
    IF text = NoFile THEN <<>>
    ELSE LET parts == Split(text, "\n")
             ls == IF parts[Len(parts)] = <<>>
                   THEN SubSeq(parts, 1, Len(parts) - 1) ELSE parts
         IN  TextOfLines(SelectSeq(ls, LAMBDA l : StartsWith(l, <<"@">>) = header))

\* the loop of mergeSAM: '>>' appends to the output file (lines 255-256)
RECURSIVE mergeSAMLoop(_, _, _, _)
mergeSAMLoop(files, samList, i, out) ==
    IF i > Len(samList) THEN out
    ELSE mergeSAMLoop(files, samList, i + 1,
                      out \o GrepLines(files[samList[i]], FALSE))

\* mergeSAM(samList, outSam) (lines 251-256): '>' creates or empties the
\* output file whatever grep does
mergeSAM(files, samList, outSam) ==
    IF samList = <<>> THEN [exc |-> "IndexError", fs |-> files]
    ELSE [exc |-> "ok",
          fs |-> [files EXCEPT ![outSam] =
                     mergeSAMLoop(files, samList, 1,
                                  GrepLines(files[samList[1]], TRUE))]]

MaxMergeInputs == 2

MergePaths == { <<"a", ".", "sam">>, <<"b", ".", "sam">>, <<"c", ".", "sam">> }
OutSam == <<"out", ".", "sam">>

\* what an input path holds: no file, or header lines and records
MergeTexts ==
    { NoFile,
      <<"@", "HD", "\n", "q1", "\t", "0", "\t", "TUBB", "\n">>,
      <<"@", "SQ", "\n", "q2", "\t", "0", "\t", "*", "\n",
        "@", "PG", "\n", "q3", "\t", "0", "\t", "ACTB", "\n">> }

InitMergeSam ==
    /\ arg \in {[samList |-> l, texts |-> t] :
                   l \in SeqsUpTo(MergePaths, MaxMergeInputs),
                   t \in [MergePaths -> MergeTexts]}
    /\ fs = [p \in MergePaths \cup {OutSam} |->
                IF p = OutSam THEN NoFile ELSE arg.texts[p]]
    /\ objs = <<>>
    /\ sumObj = NoObj
    /\ ret = NoRet

CallMergeSAM ==
    /\ ret = NoRet
    /\ LET r == mergeSAM(fs, arg.samList, OutSam)
       IN  /\ ret' = [op |-> "mergeSAM", exc |-> r.exc]
           /\ fs' = r.fs
    /\ UNCHANGED <<objs, sumObj, arg>>

NextMergeSam == CallMergeSAM

SpecMergeSam == InitMergeSam /\ [][NextMergeSam]_vars

MissingInput == \E i \in 1..Len(arg.samList) : arg.texts[arg.samList[i]] = NoFile

\* C11: a mergeSAM whose list names a path that is missing or unreadable,
\* the first or a later one, ends in a fatal error; it never returns
\* normally.
C11_MergeFailsOnMissing ==
    (ret.op = "mergeSAM" /\ MissingInput) => ret.exc # "ok"

\* what mergeSAM does: with a list that is not empty it returns normally
\* and has written the output file, whether or not every path has a file;
\* the inputs are left as they were
MergeSAMIgnoresMissing ==
    (ret.op = "mergeSAM" /\ arg.samList # <<>>)
        => /\ ret.exc = "ok"
           /\ fs[OutSam] # NoFile
           /\ \A p \in MergePaths : fs[p] = arg.texts[p]

(***************************************************************************)
(* Section markers                                                         *)
(***************************************************************************)
MaxMarkerLines == 4

MarkerFile == <<"m", ".", "dcc">>
AttrLine == <<"ID", ",", "S1">>

\* the lines a file of this part is made of: open and close markers of two
\* sections and a key,value line
MarkerLines == { Open("Header"), Close("Header"),
                 Open("Scan_Attributes"), Close("Scan_Attributes"), AttrLine }

InitMarkers ==
    /\ arg \in {[lines |-> ls] : ls \in SeqsUpTo(MarkerLines, MaxMarkerLines)}
    /\ fs = (MarkerFile :> TextOfLines(arg.lines))
    /\ objs = [o \in {"m"} |-> dccfile_init]
    /\ sumObj = NoObj
    /\ ret = NoRet

CallImportMarkers ==
    /\ ret = NoRet
    /\ LET r == importDCC(objs["m"], fs[MarkerFile])
       IN  /\ objs' = [objs EXCEPT !["m"] = r.o]
           /\ ret' = [op |-> "importDCC", exc |-> r.exc]
    /\ UNCHANGED <<fs, sumObj, arg>>

NextMarkers == CallImportMarkers

SpecMarkers == InitMarkers /\ [][NextMarkers]_vars

\* the markers of a list of lines, read by the grammar of the format: cur is
\* the name of the section that is open, <<>> when none is
IsOpen(l) == Len(l) = 3 /\ l[1] = "<" /\ l[3] = ">"
IsClose(l) == Len(l) = 4 /\ l[1] = "<" /\ l[2] = "/" /\ l[4] = ">"

RECURSIVE MalformedFrom(_, _, _)
MalformedFrom(lines, i, cur) ==
    IF i > Len(lines) THEN FALSE
    ELSE IF IsOpen(lines[i])
         THEN cur # <<>> \/ MalformedFrom(lines, i + 1, <<lines[i][2]>>)
    ELSE IF IsClose(lines[i])
         THEN cur # <<lines[i][3]>> \/ MalformedFrom(lines, i + 1, <<>>)
    ELSE MalformedFrom(lines, i + 1, cur)

\* a close marker that does not name the open section, a close marker with
\* no section open, or a section opened while another is open
MalformedMarkers == MalformedFrom(arg.lines, 1, <<>>)

\* C12: parsing a count file with a malformed section marker ends in a fatal
\* format error; the text is never accepted.
C12_MalformedMarkersFatal ==
    (ret.op = "importDCC" /\ MalformedMarkers) => ret.exc # "ok"

\* what importDCC does: every text made of these lines is accepted, whatever
\* its markers; a key,value line is filed under the section opened last and
\* not closed since, by whatever marker
MarkersAlwaysAccepted ==
    ret.op = "importDCC" =>
        /\ ret.exc = "ok"
        /\ (arg.lines = <<Open("Header"), Open("Scan_Attributes"), AttrLine,
                          Close("Header")>>
                => /\ objs["m"].scanattribs = << <<STR_ID, StrCell(<<"S1">>)>> >>
                   /\ objs["m"].header = <<>>)

(***************************************************************************)
(* The keys of the stage summary                                           *)
(***************************************************************************)
StageKeys == { <<"Raw">>, <<"Trimmed">>, <<"Stitched">>, <<"Aligned">> }

\* the call just made named a step that is none of the four
UnknownStepCall == ret'.op = "update" /\ ret'.step \notin StageKeys

\* the call just made had no override and a file of an unsupported extension
UnsupportedFileCall ==
    /\ ret'.op = "update"
    /\ ret'.step \in StageKeys
    /\ ret'.forceVal = 0
    /\ ret'.stepFile = StageTxt

\* C13: after any sequence of update calls, successful or failing, the keys
\* of vals are exactly Raw, Trimmed, Stitched and Aligned, each once; an
\* update naming another step raises and leaves the four counts as they
\* were, and so does an update without override from a file of an
\* unsupported extension.
C13_StageKeys ==
    /\ [](/\ DictKeySet(sumObj.vals) = StageKeys
          /\ Len(sumObj.vals) = 4)
    /\ [][(UnknownStepCall \/ UnsupportedFileCall)
              => (ret'.exc = "Exception" /\ sumObj' = sumObj)]_vars

\* C13 witness: after an update that stored 7 under Raw, an update of the
\* unknown step Unique has raised, and Raw is still 7 among the four keys
C13_Witness ==
    /\ ret.op = "update"
    /\ ret.n = 2
    /\ ret.step = <<"Unique">>
    /\ ret.exc = "Exception"
    /\ DictGet(sumObj.vals, <<"Raw">>) = 7
    /\ Len(sumObj.vals) = 4

(***************************************************************************)
(* Writing a CountFile after addcounts                                     *)
(***************************************************************************)
MaxMerges == 2

MergedFile == <<"ab", ".", "dcc">>

\* a, of any schema, is the CountFile merged into and then written; b is
\* the CountFile whose counts are added; back is read from the file written
InitMergeWrite ==
    /\ arg \in {[a |-> [sch |-> sa, t |-> ta], b |-> [sch |-> "new", t |-> tb]] :
                   sa \in MergeSchemas, ta \in MergeTables, tb \in MergeTables}
    /\ fs = (MergedFile :> NoFile)
    /\ objs = [o \in {"a", "b", "back"} |->
                  IF o = "a" THEN ParsedCountFile(<<"S1">>, <<>>, arg.a.sch, arg.a.t)
                  ELSE IF o = "b" THEN ParsedCountFile(<<"S2">>, <<>>, arg.b.sch, arg.b.t)
                  ELSE dccfile_init]
    /\ sumObj = NoObj
    /\ ret = [op |-> "none", merges |-> 0, merged |-> "none",
              wrote |-> "none", back |-> "none"]

\* a.addcounts(b)
CallMergeInto ==
    /\ ret.merges < MaxMerges /\ ret.wrote = "none"
    /\ LET r == addcounts(objs["a"], objs["b"])
       IN  /\ objs' = [objs EXCEPT !["a"] = r.o]
           /\ ret' = [ret EXCEPT !.op = "addcounts", !.merges = @ + 1,
                                 !.merged = r.exc]
    /\ UNCHANGED <<fs, sumObj, arg>>

\* a.unixwrite(ab.dcc) (lines 608-611): the file is opened for writing,
\* which creates it empty, before the text is made
CallWriteMerged ==
    /\ ret.wrote = "none"
    /\ LET w == unixwrite(objs["a"])
       IN  /\ fs' = [fs EXCEPT ![MergedFile] = IF w.exc = "ok" THEN w.val ELSE <<>>]
           /\ ret' = [ret EXCEPT !.op = "unixwrite", !.wrote = w.exc]
    /\ UNCHANGED <<objs, sumObj, arg>>

\* back = dccfile(ab.dcc), once unixwrite has returned
CallParseBack ==
    /\ ret.wrote = "ok" /\ ret.back = "none"
    /\ LET r == importDCC(objs["back"], fs[MergedFile])
       IN  /\ objs' = [objs EXCEPT !["back"] = r.o]
           /\ ret' = [ret EXCEPT !.op = "importDCC", !.back = r.exc]
    /\ UNCHANGED <<fs, sumObj, arg>>

NextMergeWrite == CallMergeInto \/ CallWriteMerged \/ CallParseBack

SpecMergeWrite == InitMergeWrite /\ [][NextMergeWrite]_vars

AllCellsStr(o) ==
    \A i \in 1..Len(o.codesum) :
        \A k \in 1..Len(o.codesum[i][2]) : o.codesum[i][2][k].ty = "str"

\* C14: after any sequence of addcounts calls on a parsed CountFile, every
\* field of every analyte row is a string, unixwrite completes without
\* error, and a parse of the text written returns the analytecounts() of the
\* CountFile written.
C14_WritableAfterMerge ==
    ret.merges > 0 =>
        /\ AllCellsStr(objs["a"])
        /\ ret.wrote \in {"none", "ok"}
        /\ ret.back # "none" =>
               /\ ret.back = "ok"
               /\ analytecounts(objs["back"]) = analytecounts(objs["a"])

\* what the code does: addcounts stores the count it sets as an int, and
\* unixwrite raises TypeError exactly when some analyte row holds an int;
\* it then leaves an empty file
WriteFailsOnIntCell ==
    ret.wrote # "none" =>
        /\ (ret.wrote = "TypeError") = ~AllCellsStr(objs["a"])
        /\ ret.wrote \in {"ok", "TypeError"}
        /\ ret.wrote = "TypeError" => fs[MergedFile] = <<>>
        /\ (ret.merged = "ok" /\ arg.b.t # <<>>) => ret.wrote = "TypeError"

(***************************************************************************)
(* Rows of the table builders                                              *)
(***************************************************************************)
\* row is the row that the table just returned must hold for the file d
IsRowOf(row, d) ==
    IF ret.op = "generateCountTable"
    THEN IsCountRowOf(row, d, Tail(ret.r.val.columns))
    ELSE IsSummaryRowOf(row, d)

\* C15: the table that generateCountTable or pipelineSummaryTable returns
\* has exactly one row per input CountFile, in input order, each holding
\* that file's counts, also when two CountFiles have the same sample ID.
C15_OneRowPerFile ==
    (ret.op \in {"generateCountTable", "pipelineSummaryTable"} /\ ret.r.exc = "ok")
        => /\ Len(ret.r.val.rows) = Len(arg.files)
           /\ \A i \in 1..Len(arg.files) : IsRowOf(ret.r.val.rows[i], arg.files[i])

\* the last file of the collection that has the sample ID id
LastWithId(id) ==
    arg.files[CHOOSE i \in 1..Len(arg.files) :
                 /\ arg.files[i].id = id
                 /\ \A j \in (i + 1)..Len(arg.files) : arg.files[j].id # id]

\* what the builders do: one row per sample ID, holding the counts of the
\* last file that has this ID
OneRowPerSampleId ==
    (ret.op \in {"generateCountTable", "pipelineSummaryTable"} /\ ret.r.exc = "ok")
        => /\ Len(ret.r.val.rows)
                  = Cardinality({arg.files[i].id : i \in 1..Len(arg.files)})
           /\ \A r \in 1..Len(ret.r.val.rows) :
                  IsRowOf(ret.r.val.rows[r], LastWithId(ret.r.val.rows[r][1].v))

====
